---- MODULE Spec2Model ----
(***************************************************************************)
(* Background refresh engine of zoom-agent/script.js.                      *)
(*                                                                         *)
(* The Node process runs one fire-and-forget initializeBackground() at     *)
(* start and one updateBackground() per setInterval tick.  Every async    *)
(* function runs atomically between two awaits of remote I/O (or of the    *)
(* poll timer), so each action below is one such run-to-next-await slice:  *)
(* it consumes the answer of the pending remote call, drawn from the set   *)
(* of answers the remote side can give, and runs the code up to the next   *)
(* remote call or to the end of the function.                              *)
(***************************************************************************)
EXTENDS Integers, Sequences, FiniteSets, TLC

(* ---------------------------- bounds ----------------------------------- *)

\* number of setInterval ticks that fire in a run of Spec
MaxTicks == 1
\* number of times one job reports a status other than "completed"
MaxPolls == 2

(* ---------------------------- values ----------------------------------- *)

\* JavaScript null and undefined
Null == "null"
Undefined == "undefined"

\* initializeBackground is process 0, the updateBackground started by the
\* c-th tick is process c
TicksOverlap == MaxTicks + 1
Cycles == 1..TicksOverlap
Procs == 0..TicksOverlap

\* prompts and completion texts are sequences of characters
DefaultPrompt == <<"b">>

\* ids the video service assigns to the jobs process p creates
GenJobId(p) == "gen" \o ToString(p)
InterpJobId(p) == "interp" \o ToString(p)
\* result URL the video service reports for a job
Url(id) == "http://x/" \o id

NonCompleted == {"pending", "processing", "failed"}

(* ------------------------- remote answers ------------------------------ *)

\* texts the completion service may return to process p
Texts(p) == {<<" ", ToString(p), " ">>, <<ToString(p)>>}

\* a remote call that yields no JSON value: fetch rejects (transport), or
\* response.json() rejects (unparsable body)
Rejected == {[kind |-> "transport"], [kind |-> "unparsable"]}

\* outcomes of the completions call: rejected, body is null, body without
\* choices, empty choices, a choice without text, a choice with text
PromptResponses(p) ==
    Rejected \cup {[kind |-> "null"]}
    \cup {[kind |-> "body", hasChoices |-> FALSE, choices |-> <<>>],
          [kind |-> "body", hasChoices |-> TRUE, choices |-> <<>>],
          [kind |-> "body", hasChoices |-> TRUE,
           choices |-> <<[hasText |-> FALSE, text |-> <<>>]>>]}
    \cup {[kind |-> "body", hasChoices |-> TRUE,
           choices |-> <<[hasText |-> TRUE, text |-> t]>>] : t \in Texts(p)}

\* outcomes of a create-generation call that would create job id: rejected,
\* body is null, body without id, body with the new id
GenerationResponses(id) ==
    Rejected \cup {[kind |-> "null"],
                   [kind |-> "body", id |-> Undefined],
                   [kind |-> "body", id |-> id]}

\* outcomes of a status call for job id after it reported a non-completed
\* status n times.  No job exists under the id "undefined": its body has no
\* status.  A completed body may lack video_url.
StatusResponses(id, n) ==
    Rejected \cup {[kind |-> "null"]}
    \cup (IF id = Undefined
          THEN {[kind |-> "body", status |-> Undefined, video_url |-> Undefined] : x \in
                    IF n < MaxPolls THEN {1} ELSE {}}
          ELSE {[kind |-> "body", status |-> s, video_url |-> Undefined] :
                    s \in IF n < MaxPolls THEN NonCompleted ELSE {}}
               \cup {[kind |-> "body", status |-> "completed", video_url |-> u] :
                    u \in {Url(id), Undefined}})

(* --------------------------- pure helpers ------------------------------ *)

\* String.prototype.trim on a sequence of characters
RECURSIVE TrimStart(_)
TrimStart(s) == IF s # <<>> /\ Head(s) = " " THEN TrimStart(Tail(s)) ELSE s
RECURSIVE TrimEnd(_)
TrimEnd(s) ==
    IF s # <<>> /\ s[Len(s)] = " " THEN TrimEnd(SubSeq(s, 1, Len(s) - 1)) ELSE s
Trim(s) == TrimEnd(TrimStart(s))

\* try block of generatePromptForLuma under answer resp: a rejected fetch or
\* json(), a null body (data.choices) and a choice without text
\* (undefined.trim()) throw inside the try
TryPrompt(basePrompt, resp) ==
    IF resp.kind # "body" THEN [threw |-> TRUE, value |-> Undefined]
    ELSE IF resp.hasChoices /\ Len(resp.choices) > 0
         THEN IF resp.choices[1].hasText
              THEN [threw |-> FALSE, value |-> Trim(resp.choices[1].text)]
              ELSE [threw |-> TRUE, value |-> Undefined]
         ELSE [threw |-> FALSE, value |-> basePrompt]

\* generatePromptForLuma whose catch rethrows instead of returning basePrompt
generatePromptRethrows(basePrompt, resp) == TryPrompt(basePrompt, resp)

\* generatePromptForLuma: the try block, and the catch that returns basePrompt
generatePromptForLuma(basePrompt, resp) ==
    LET t == TryPrompt(basePrompt, resp)
    IN  IF t.threw THEN [threw |-> FALSE, value |-> basePrompt] ELSE t

\* truthiness of currentVideo.video_url
Truthy(v) == v \notin {Null, Undefined, ""}

VARIABLES
    currentVideo,   \* let currentVideo = { id, video_url }
    currentPrompt,  \* let currentPrompt
    proc,           \* per process: position and locals of the async function
    ticks           \* setInterval ticks fired so far

vars == <<currentVideo, currentPrompt, proc, ticks>>

NoGeneration == [status |-> Undefined, video_url |-> Undefined]

\* a process that has not been started.  basePrompt is the argument of the
\* pending generatePromptForLuma call and is empty once that call returned;
\* fetches, sleeps and notCompleted count the getGeneration calls answered,
\* the sleeps finished and the non-completed statuses seen in the current
\* pollGeneration call; startVideo is history: currentVideo at the tick that
\* started the cycle
Idle ==
    [pc |-> "idle", basePrompt |-> <<>>, prompt |-> <<>>, genId |-> Undefined,
     generation |-> NoGeneration, frame0 |-> Undefined, interpGenId |-> Undefined,
     fetches |-> 0, sleeps |-> 0, notCompleted |-> 0,
     startVideo |-> [id |-> Null, video_url |-> Null]]

\* a procedure that has returned (pc "done") or whose catch has logged the
\* error (pc "aborted"): its locals are gone
Exit(pc) == [Idle EXCEPT !.pc = pc]

\* first slice of either procedure: generatePromptForLuma(currentPrompt) is
\* called and awaits the completions call
Started ==
    [Idle EXCEPT !.pc = "prompt", !.basePrompt = currentPrompt,
                 !.startVideo = currentVideo]

Init ==
    /\ currentVideo = [id |-> Null, video_url |-> Null]
    /\ currentPrompt = DefaultPrompt
    /\ proc = [p \in Procs |->
                 IF p = 0
                 THEN [Idle EXCEPT !.pc = "prompt", !.basePrompt = DefaultPrompt]
                 ELSE Idle]
    /\ ticks = 0

(* ------------------------ pollGeneration ------------------------------- *)

\* a pollGeneration loop that sleeps before it tests generation.status
FetchedSleepsFirst(r, resp) ==
    [r EXCEPT !.fetches = @ + 1,
              !.sleeps = @ + 1,
              !.generation = IF resp.kind = "body"
                             THEN [status |-> resp.status, video_url |-> resp.video_url]
                             ELSE @,
              !.notCompleted = IF resp.kind = "body" /\ resp.status # "completed"
                               THEN @ + 1 ELSE @]

\* one getGeneration answer consumed by the loop of pollGeneration
Fetched(r, resp) ==
    [r EXCEPT !.fetches = @ + 1,
              !.generation = IF resp.kind = "body"
                             THEN [status |-> resp.status, video_url |-> resp.video_url]
                             ELSE @,
              !.notCompleted = IF resp.kind = "body" /\ resp.status # "completed"
                               THEN @ + 1 ELSE @]

\* a pollGeneration that also throws when the job reports "failed"
PollThrowsOnFailed(resp) == resp.kind # "body" \/ resp.status = "failed"

\* a poll timer whose promise is never resolved
PollSleepNeverResolves(p) ==
    /\ proc[p].pc \in {"sleepNew", "sleepInterp"}
    /\ FALSE
    /\ UNCHANGED vars

\* getGeneration rejected, or generation.status read on a null body: the
\* error leaves pollGeneration and reaches the caller's catch
PollThrows(resp) == resp.kind # "body"

\* a pollGeneration that returns on the first body, whatever its status
PollReturnsFirstBody(resp) == resp.kind = "body"

\* the loop breaks and pollGeneration returns generation
PollReturns(resp) == resp.kind = "body" /\ resp.status = "completed"

\* a fresh call of pollGeneration
PollStart(r, pc) ==
    [r EXCEPT !.pc = pc, !.fetches = 0, !.sleeps = 0, !.notCompleted = 0,
              !.generation = NoGeneration]

\* await new Promise(resolve => setTimeout(resolve, interval)) elapses and
\* the loop issues the next getGeneration
PollSleep(p) ==
    /\ proc[p].pc \in {"sleepNew", "sleepInterp"}
    /\ proc' = [proc EXCEPT ![p].sleeps = @ + 1,
                            ![p].pc = IF proc[p].pc = "sleepNew"
                                      THEN "pollNew" ELSE "pollInterp"]
    /\ UNCHANGED <<currentVideo, currentPrompt, ticks>>

(* ---------------------- initializeBackground --------------------------- *)

\* line 169: currentPrompt = await generatePromptForLuma(currentPrompt), then
\* generateVideo(currentPrompt) is called
InitializePrompt(resp) ==
    /\ proc[0].pc = "prompt"
    /\ LET res == generatePromptForLuma(proc[0].basePrompt, resp)
       IN  IF res.threw
           THEN /\ proc' = [proc EXCEPT ![0] = Exit("aborted")]
                /\ UNCHANGED currentPrompt
           ELSE /\ currentPrompt' = res.value
                /\ proc' = [proc EXCEPT ![0].prompt = res.value,
                                        ![0].basePrompt = <<>>,
                                        ![0].pc = "generate"]
    /\ UNCHANGED <<currentVideo, ticks>>

\* lines 173-177: genId = genResponse.id, then pollGeneration(genId) is called
InitializeGenerate(resp) ==
    /\ proc[0].pc = "generate"
    /\ proc' = [proc EXCEPT ![0] =
                  IF resp.kind # "body"
                  THEN Exit("aborted")
                  ELSE PollStart([@ EXCEPT !.genId = resp.id], "pollNew")]
    /\ UNCHANGED <<currentVideo, currentPrompt, ticks>>

\* lines 177-178: one answer to pollGeneration(genId); when it returns,
\* currentVideo = { id: genId, video_url: generation.video_url }
InitializePoll(resp) ==
    /\ proc[0].pc = "pollNew"
    /\ LET r == Fetched(proc[0], resp)
       IN  IF PollThrows(resp)
           THEN /\ proc' = [proc EXCEPT ![0] = Exit("aborted")]
                /\ UNCHANGED currentVideo
           ELSE IF PollReturns(resp)
           THEN /\ currentVideo' = [id |-> r.genId, video_url |-> r.generation.video_url]
                /\ proc' = [proc EXCEPT ![0] = Exit("done")]
           ELSE /\ proc' = [proc EXCEPT ![0] = [r EXCEPT !.pc = "sleepNew"]]
                /\ UNCHANGED currentVideo
    /\ UNCHANGED <<currentPrompt, ticks>>

(* ------------------------ updateBackground ----------------------------- *)

\* line 216: a setInterval tick calls updateBackground(), which calls
\* generatePromptForLuma(currentPrompt); limit bounds the ticks of a run
Tick(limit) ==
    /\ ticks < limit
    /\ ticks' = ticks + 1
    /\ proc' = [proc EXCEPT ![ticks + 1] = Started]
    /\ UNCHANGED <<currentVideo, currentPrompt>>

\* lines 189-193: newPrompt = await generatePromptForLuma(...), then
\* generateVideo(newPrompt) is called
UpdatePrompt(c, resp) ==
    /\ proc[c].pc = "prompt"
    /\ LET res == generatePromptForLuma(proc[c].basePrompt, resp)
       IN  proc' = [proc EXCEPT ![c] =
                      IF res.threw
                      THEN Exit("aborted")
                      ELSE [@ EXCEPT !.prompt = res.value, !.basePrompt = <<>>,
                                      !.pc = "generate"]]
    /\ UNCHANGED <<currentVideo, currentPrompt, ticks>>

\* an updateBackground whose catch resets currentVideo when generateVideo fails
UpdateGenerateClearsOnError(c, resp) ==
    /\ proc[c].pc = "generate"
    /\ proc' = [proc EXCEPT ![c] =
                  IF resp.kind # "body"
                  THEN Exit("aborted")
                  ELSE PollStart([@ EXCEPT !.genId = resp.id], "pollNew")]
    /\ currentVideo' = IF resp.kind # "body"
                       THEN [id |-> Null, video_url |-> Null]
                       ELSE currentVideo
    /\ UNCHANGED <<currentPrompt, ticks>>

\* lines 193-195: newGenId = newGenResponse.id, then pollGeneration(newGenId)
UpdateGenerate(c, resp) ==
    /\ proc[c].pc = "generate"
    /\ proc' = [proc EXCEPT ![c] =
                  IF resp.kind # "body"
                  THEN Exit("aborted")
                  ELSE PollStart([@ EXCEPT !.genId = resp.id], "pollNew")]
    /\ UNCHANGED <<currentVideo, currentPrompt, ticks>>

\* lines 195-199: one answer to pollGeneration(newGenId); when it returns,
\* interpolateVideos(currentVideo.id, newGenId, ...) is called
UpdatePollNew(c, resp) ==
    /\ proc[c].pc = "pollNew"
    /\ LET r == Fetched(proc[c], resp)
       IN  proc' = [proc EXCEPT ![c] =
                      IF PollThrows(resp) THEN Exit("aborted")
                      ELSE IF PollReturns(resp)
                      THEN [r EXCEPT !.frame0 = currentVideo.id, !.pc = "interpolate"]
                      ELSE [r EXCEPT !.pc = "sleepNew"]]
    /\ UNCHANGED <<currentVideo, currentPrompt, ticks>>

\* lines 199-201: interpGenId = interpResponse.id, then
\* pollGeneration(interpGenId) is called
UpdateInterpolate(c, resp) ==
    /\ proc[c].pc = "interpolate"
    /\ proc' = [proc EXCEPT ![c] =
                  IF resp.kind # "body"
                  THEN Exit("aborted")
                  ELSE PollStart([@ EXCEPT !.interpGenId = resp.id], "pollInterp")]
    /\ UNCHANGED <<currentVideo, currentPrompt, ticks>>

\* an updateBackground that publishes the new generation instead of the
\* interpolated one
UpdatePollInterpPublishesNew(c, resp) ==
    /\ proc[c].pc = "pollInterp"
    /\ LET r == Fetched(proc[c], resp)
       IN  IF PollThrows(resp)
           THEN /\ proc' = [proc EXCEPT ![c] = Exit("aborted")]
                /\ UNCHANGED <<currentVideo, currentPrompt>>
           ELSE IF PollReturns(resp)
           THEN /\ currentVideo' = [id |-> r.genId, video_url |-> Url(r.genId)]
                /\ currentPrompt' = r.prompt
                /\ proc' = [proc EXCEPT ![c] = Exit("done")]
           ELSE /\ proc' = [proc EXCEPT ![c] = [r EXCEPT !.pc = "sleepInterp"]]
                /\ UNCHANGED <<currentVideo, currentPrompt>>
    /\ UNCHANGED ticks

\* lines 201-206: one answer to pollGeneration(interpGenId); when it returns,
\* currentVideo and currentPrompt are assigned
UpdatePollInterp(c, resp) ==
    /\ proc[c].pc = "pollInterp"
    /\ LET r == Fetched(proc[c], resp)
       IN  IF PollThrows(resp)
           THEN /\ proc' = [proc EXCEPT ![c] = Exit("aborted")]
                /\ UNCHANGED <<currentVideo, currentPrompt>>
           ELSE IF PollReturns(resp)
           THEN /\ currentVideo' = [id |-> r.interpGenId,
                                    video_url |-> r.generation.video_url]
                /\ currentPrompt' = r.prompt
                /\ proc' = [proc EXCEPT ![c] = Exit("done")]
           ELSE /\ proc' = [proc EXCEPT ![c] = [r EXCEPT !.pc = "sleepInterp"]]
                /\ UNCHANGED <<currentVideo, currentPrompt>>
    /\ UNCHANGED ticks

(* --------------------- GET /api/current-video -------------------------- *)

\* the answer the handler gives in the current state; it assigns nothing
current ==
    IF Truthy(currentVideo.video_url)
    THEN [code |-> 200, video_url |-> currentVideo.video_url]
    ELSE [code |-> 503, video_url |-> Null]

(* --------------------------- specification ----------------------------- *)

\* a slice of initializeBackground or of an updateBackground in flight
Step ==
    \/ \E resp \in PromptResponses(0) : InitializePrompt(resp)
    \/ \E resp \in GenerationResponses(GenJobId(0)) : InitializeGenerate(resp)
    \/ \E resp \in StatusResponses(proc[0].genId, proc[0].notCompleted) :
          InitializePoll(resp)
    \/ \E p \in Procs : PollSleep(p)
    \/ \E c \in Cycles : \E resp \in PromptResponses(c) : UpdatePrompt(c, resp)
    \/ \E c \in Cycles :
          \E resp \in GenerationResponses(GenJobId(c)) : UpdateGenerate(c, resp)
    \/ \E c \in Cycles :
          \E resp \in StatusResponses(proc[c].genId, proc[c].notCompleted) :
             UpdatePollNew(c, resp)
    \/ \E c \in Cycles :
          \E resp \in GenerationResponses(InterpJobId(c)) : UpdateInterpolate(c, resp)
    \/ \E c \in Cycles :
          \E resp \in StatusResponses(proc[c].interpGenId, proc[c].notCompleted) :
             UpdatePollInterp(c, resp)

Next == Tick(MaxTicks) \/ Step

Spec == Init /\ [][Next]_vars

\* the same program observed for one more tick, so that two updateBackground
\* calls exist
NextOverlap == Tick(TicksOverlap) \/ Step

SpecOverlap == Init /\ [][NextOverlap]_vars

(* ------------------- runs without status-fetch errors ----------------- *)

\* the answers of StatusResponses under which getGeneration returns a body
StatusAnswers(id, n) == {resp \in StatusResponses(id, n) : resp.kind = "body"}

\* a slice of process p inside the loop of pollGeneration when getGeneration
\* returns a body: the answer is consumed, or the poll timer elapses
PollLoop(p) ==
    \/ PollSleep(p)
    \/ /\ p = 0
       /\ \E resp \in StatusAnswers(proc[0].genId, proc[0].notCompleted) :
             InitializePoll(resp)
    \/ /\ p \in Cycles
       /\ \E resp \in StatusAnswers(proc[p].genId, proc[p].notCompleted) :
             UpdatePollNew(p, resp)
    \/ /\ p \in Cycles
       /\ \E resp \in StatusAnswers(proc[p].interpGenId, proc[p].notCompleted) :
             UpdatePollInterp(p, resp)

\* the slices outside pollGeneration
Calls ==
    \/ \E resp \in PromptResponses(0) : InitializePrompt(resp)
    \/ \E resp \in GenerationResponses(GenJobId(0)) : InitializeGenerate(resp)
    \/ \E c \in Cycles : \E resp \in PromptResponses(c) : UpdatePrompt(c, resp)
    \/ \E c \in Cycles :
          \E resp \in GenerationResponses(GenJobId(c)) : UpdateGenerate(c, resp)
    \/ \E c \in Cycles :
          \E resp \in GenerationResponses(InterpJobId(c)) : UpdateInterpolate(c, resp)

NextPoll == Tick(MaxTicks) \/ Calls \/ \E p \in Procs : PollLoop(p)

\* the program when every getGeneration call returns a body
SpecPoll == Init /\ [][NextPoll]_vars

\* a tick that fires when no procedure is between its call and its return
TickWhenIdle ==
    /\ \A p \in Procs : proc[p].pc \in {"idle", "done", "aborted"}
    /\ Tick(MaxTicks)

NextPollFair == TickWhenIdle \/ Calls \/ \E p \in Procs : PollLoop(p)

\* the runs of SpecPoll in which every procedure has returned before the next
\* tick; the event loop runs every continuation whose fetch has been answered
\* and every poll timer that has elapsed
SpecPollFair ==
    Init /\ [][NextPollFair]_vars /\ \A p \in Procs : WF_vars(PollLoop(p))

(* ------------------------------ claims --------------------------------- *)

\* process p has been started and has neither returned nor reached its catch
InFlight(p) == proc[p].pc \notin {"idle", "done", "aborted"}

\* process p is inside pollGeneration, awaiting getGeneration
Polling(p) == proc[p].pc \in {"pollNew", "pollInterp"}

\* process p is inside pollGeneration, awaiting the poll timer
Sleeping(p) == proc[p].pc \in {"sleepNew", "sleepInterp"}

\* C1: at most one updateBackground is in flight in any reachable state (a
\* tick that fires during a running cycle starts no new cycle).
C1_AtMostOneCycleInFlight ==
    Cardinality({c \in Cycles : InFlight(c)}) <= 1

\* C2: no updateBackground is in flight while initializeBackground is in
\* flight.
C2_NoCycleDuringInitialize ==
    ~(InFlight(0) /\ \E c \in Cycles : InFlight(c))

\* C3: an updateBackground that fails leaves currentVideo and currentPrompt
\* as they were: the step in which a cycle reaches its catch assigns neither,
\* no earlier step of a cycle does (only the step that ends the cycle "done"
\* assigns them), and once initializeBackground has committed and every cycle
\* started has failed, the video published is still the one
\* initializeBackground committed.
C3_FailedCycleLeavesState ==
    /\ [][\A c \in Cycles :
            (InFlight(c) /\ proc'[c] # proc[c] /\ proc'[c].pc # "done")
               => (currentVideo' = currentVideo /\ currentPrompt' = currentPrompt)]_vars
    /\ []((/\ proc[0].pc = "done"
           /\ \A c \in Cycles : proc[c].pc \in {"idle", "aborted"})
             => /\ currentVideo.id = GenJobId(0)
                /\ currentVideo.video_url \in {Url(GenJobId(0)), Undefined})

\* C3 witness: initializeBackground committed a served video, the cycle
\* failed, and that video is still served.
C3_Witness ==
    /\ proc[0].pc = "done"
    /\ proc[1].pc = "aborted"
    /\ current = [code |-> 200, video_url |-> Url(GenJobId(0))]

\* C4: at the moment initializeBackground fails, GET /api/current-video
\* answers 503.
C4_NotReadyWhenInitializeFails ==
    [][(InFlight(0) /\ proc'[0].pc = "aborted") => current'.code = 503]_vars

\* C5: once a procedure has committed, GET /api/current-video answers 200
\* with the published URL, never 503.
C5_ReadyOnceCommitted ==
    (\E p \in Procs : proc[p].pc = "done")
        => current = [code |-> 200, video_url |-> currentVideo.video_url]

\* jobs whose status "completed" the program can have observed
JobIds == {GenJobId(p) : p \in Procs} \cup {InterpJobId(c) : c \in Cycles}

\* C6: currentVideo.video_url is unset (null) or the result URL of a completed
\* job; it is never undefined next to a set id.
C6_UrlOfCompletedJob ==
    \/ currentVideo = [id |-> Null, video_url |-> Null]
    \/ /\ currentVideo.id \in JobIds
       /\ currentVideo.video_url = Url(currentVideo.id)

\* C7: the first keyframe id an updateBackground passes to interpolateVideos
\* is the currentVideo.id published when that cycle started.
C7_Frame0IsIdAtCycleStart ==
    \A c \in Cycles :
        proc[c].pc \in {"interpolate", "pollInterp", "sleepInterp"}
            => proc[c].frame0 = proc[c].startVideo.id

\* C8: between the start of an updateBackground and its commit, currentVideo
\* is the record published when the cycle started.
C8_ReadDuringCycleIsPreCycle ==
    \A c \in Cycles : InFlight(c) => currentVideo = proc[c].startVideo

\* an answer of the completions call that carries no text: transport failure,
\* unparsable body, null body, no choices, empty choices, a choice without text
NoText(resp) ==
    \/ resp.kind # "body"
    \/ ~resp.hasChoices
    \/ Len(resp.choices) = 0
    \/ ~resp.choices[1].hasText

\* C9: generatePromptForLuma never throws, returns basePrompt unchanged for
\* every answer that carries no text, and the caller goes on to generateVideo.
C9_PromptNeverRaises ==
    /\ [](\A p \in Procs : proc[p].pc = "prompt" =>
            \A resp \in PromptResponses(p) :
               /\ ~generatePromptForLuma(proc[p].basePrompt, resp).threw
               /\ NoText(resp) =>
                    generatePromptForLuma(proc[p].basePrompt, resp).value
                       = proc[p].basePrompt)
    /\ [][\A p \in Procs :
            (proc[p].pc = "prompt" /\ proc'[p] # proc[p])
               => /\ proc'[p].pc = "generate"
                  /\ proc'[p].prompt \in
                       {proc[p].basePrompt} \cup {Trim(t) : t \in Texts(p)}]_vars

\* C9 witness: an updateBackground that started from initializeBackground's
\* varied prompt fell back to it and is awaiting generateVideo.
C9_Witness ==
    \E c \in Cycles :
        /\ proc[c].pc = "generate"
        /\ proc[c].prompt = <<ToString(0)>>

\* C10: a pollGeneration that saw k non-completed statuses has made k fetches
\* and k sleeps when it awaits the next fetch, k fetches and k - 1 sleeps
\* while it sleeps, and when it returns it has made k + 1 fetches and k sleeps
\* and returns the completed record of the last fetch.
C10_FetchesAndSleeps ==
    \A p \in Procs :
        /\ Polling(p) =>
              /\ proc[p].fetches = proc[p].notCompleted
              /\ proc[p].sleeps = proc[p].notCompleted
        /\ Sleeping(p) =>
              /\ proc[p].fetches = proc[p].notCompleted
              /\ proc[p].sleeps = proc[p].notCompleted - 1
              /\ proc[p].generation.status # "completed"
        /\ proc[p].pc = "interpolate" =>
              /\ proc[p].fetches = proc[p].notCompleted + 1
              /\ proc[p].sleeps = proc[p].notCompleted
              /\ proc[p].generation.status = "completed"

\* C10 witness: a job reported "processing" twice and then "completed", and
\* pollGeneration returned after three fetches and two sleeps.
C10_Witness ==
    \E c \in Cycles :
        /\ proc[c].pc = "interpolate"
        /\ proc[c].notCompleted = 2
        /\ proc[c].fetches = 3
        /\ proc[c].sleeps = 2

\* C11: no pollGeneration is started for a missing job id: a process that
\* polls its generateVideo job holds an id the video service assigned.
C11_NoPollOfMissingId ==
    \A p \in Procs :
        proc[p].pc \in {"pollNew", "sleepNew"} => proc[p].genId # Undefined

\* cycle c commits in this step: its pollGeneration(interpGenId) returns
Commits(c) == proc[c].pc = "pollInterp" /\ proc'[c].pc = "done"

\* C12: when the only updateBackground of the run started after
\* initializeBackground had committed job gen0 and commits, its interpolation
\* request referenced (gen0, its new job) in that order, and the state it
\* publishes is the interpolation job's id, that job's result URL when one is
\* served, and the cycle's new prompt.
C12_InitializeThenOneCycle ==
    [][\A c \in Cycles :
          (/\ Commits(c)
           /\ ticks = 1
           /\ proc[0].pc = "done"
           /\ proc[c].startVideo.id = GenJobId(0))
             => /\ proc[c].frame0 = GenJobId(0)
                /\ proc[c].genId = GenJobId(c)
                /\ proc[c].interpGenId = InterpJobId(c)
                /\ currentVideo'.id = InterpJobId(c)
                /\ currentVideo'.video_url \in {Url(InterpJobId(c)), Undefined}
                /\ currentPrompt' = proc[c].prompt]_vars

\* C12 witness: initializeBackground committed gen0, the cycle started after
\* that, varied the prompt, saw its new job gen1 completed, requested the
\* interpolation (gen0, gen1) and awaits the status of interp1, whose
\* completion commits.
C12_Witness ==
    /\ proc[0].pc = "done"
    /\ ticks = 1
    /\ proc[1].pc = "pollInterp"
    /\ proc[1].startVideo = [id |-> GenJobId(0), video_url |-> Url(GenJobId(0))]
    /\ currentVideo = proc[1].startVideo
    /\ proc[1].frame0 = GenJobId(0)
    /\ proc[1].genId = GenJobId(1)
    /\ proc[1].interpGenId = InterpJobId(1)
    /\ proc[1].prompt = <<ToString(1)>>

\* C13: currentVideo and currentPrompt change only together, in a commit:
\* no step changes currentPrompt and leaves currentVideo as it was.
C13_PromptChangesOnlyWithVideo ==
    [][currentPrompt' # currentPrompt => currentVideo' # currentVideo]_vars

\* C14: when getGeneration returns bodies, pollGeneration is left only by its
\* return on "completed": an answer with any other status, "failed" included,
\* puts the process to sleep, a sleep leads to the next fetch of the same
\* job, no step of the loop reaches the caller's catch, and a process whose
\* last seen status is "failed" is still inside the loop.
C14_FailedStatusKeepsPolling ==
    /\ [][\A p \in Procs :
            /\ (Polling(p) /\ proc'[p] # proc[p]) =>
                  \/ /\ proc'[p].pc = (IF proc[p].pc = "pollNew"
                                       THEN "sleepNew" ELSE "sleepInterp")
                     /\ proc'[p].generation.status # "completed"
                  \/ /\ proc[p].pc = "pollNew"
                     /\ proc'[p].pc = "interpolate"
                     /\ proc'[p].generation.status = "completed"
                  \/ /\ proc[p].pc = (IF p = 0 THEN "pollNew" ELSE "pollInterp")
                     /\ proc'[p].pc = "done"
            /\ (Sleeping(p) /\ proc'[p] # proc[p]) =>
                  proc'[p].pc = (IF proc[p].pc = "sleepNew"
                                 THEN "pollNew" ELSE "pollInterp")]_vars
    /\ [](\A p \in Procs :
            proc[p].generation.status = "failed" => Polling(p) \/ Sleeping(p))

\* C14 witness: a job has reported "failed" on every fetch so far and the
\* process is about to fetch its status again.
C14_Witness ==
    \E p \in Procs :
        /\ Polling(p)
        /\ proc[p].generation.status = "failed"
        /\ proc[p].notCompleted = 2
        /\ proc[p].fetches = 2

\* C15: when getGeneration returns bodies and the job reports "completed"
\* after finitely many other statuses, a pollGeneration of a job the service
\* knows eventually returns, and the record it returns has status
\* "completed".
C15_PollEventuallyReturns ==
    /\ \A p \in Procs :
          (proc[p].pc = "pollNew" /\ proc[p].genId # Undefined)
             ~> (proc[p].pc \in {"interpolate", "done"})
    /\ \A c \in Cycles :
          (proc[c].pc = "pollInterp" /\ proc[c].interpGenId # Undefined)
             ~> (proc[c].pc = "done")
    /\ [](\A c \in Cycles :
            proc[c].pc = "interpolate"
               => /\ proc[c].genId # Undefined
                  /\ proc[c].generation.status = "completed")

\* C15 witness: a pollGeneration that slept through two non-completed
\* statuses has returned the completed record.
C15_Witness ==
    \E c \in Cycles :
        /\ proc[c].pc = "interpolate"
        /\ proc[c].sleeps = 2
        /\ proc[c].generation = [status |-> "completed", video_url |-> Url(GenJobId(c))]

\* positions a cycle may move to from each position, the catch apart
NextPositions(pc) ==
    CASE pc = "prompt" -> {"generate"}
      [] pc = "generate" -> {"pollNew"}
      [] pc = "pollNew" -> {"sleepNew", "interpolate"}
      [] pc = "sleepNew" -> {"pollNew"}
      [] pc = "interpolate" -> {"pollInterp"}
      [] pc = "pollInterp" -> {"sleepInterp", "done"}
      [] pc = "sleepInterp" -> {"pollInterp"}
      [] OTHER -> {}

\* C16: every updateBackground runs prompt, generateVideo, poll of the new
\* job, interpolateVideos, poll of the interpolation job, commit, in this
\* order: interpolateVideos is called only in the step in which the new job
\* is seen "completed", by then one fetch of it at least has been made, and
\* currentVideo and currentPrompt are assigned by a cycle only in the step
\* that ends its poll of the interpolation job, a job that exists (a status
\* call for a missing job never reports "completed").
C16_CycleStepsInOrder ==
    [][\A c \in Cycles :
          (proc[c].pc # "idle" /\ proc'[c] # proc[c]) =>
             /\ proc'[c].pc \in NextPositions(proc[c].pc) \cup {"aborted"}
             /\ proc'[c].pc = "interpolate" =>
                   /\ proc'[c].generation.status = "completed"
                   /\ proc'[c].fetches >= 1
                   /\ proc'[c].genId = proc[c].genId
             /\ proc'[c].pc = "pollInterp" => proc'[c].genId = proc[c].genId
             /\ proc'[c].pc = "done" =>
                   /\ proc[c].interpGenId # Undefined
                   /\ currentVideo'.id = proc[c].interpGenId
             /\ (currentVideo' # currentVideo \/ currentPrompt' # currentPrompt)
                   => (proc[c].pc = "pollInterp" /\ proc'[c].pc = "done")]_vars

\* C16 witness: a cycle has seen its new job completed after a sleep, has
\* called interpolateVideos after that and is polling the interpolation job.
C16_Witness ==
    \E c \in Cycles :
        /\ proc[c].pc = "sleepInterp"
        /\ proc[c].genId = GenJobId(c)
        /\ proc[c].interpGenId = InterpJobId(c)

\* C17: interpolateVideos is never called with a null first keyframe: a cycle
\* whose interpolation request is out (line 199) passed a job id as frame0.
C17_Frame0NeverNull ==
    \A c \in Cycles : proc[c].pc = "interpolate" => proc[c].frame0 # Null

\* C18: when an updateBackground commits, the first keyframe of the
\* interpolation job it publishes is the id of the video its commit replaces.
C18_CommitContinuesChain ==
    [][\A c \in Cycles : Commits(c) => proc[c].frame0 = currentVideo.id]_vars

\* C19: no updateBackground has committed while initializeBackground is still
\* in flight.
C19_InitializeCommitsFirst ==
    InFlight(0) => \A c \in Cycles : proc[c].pc # "done"

\* the step in which initializeBackground assigns currentVideo (line 178)
InitializeCommits == proc[0].pc = "pollNew" /\ proc'[0].pc = "done"

\* C20: the published prompt and the published video come from one run: the
\* step in which a run publishes its video leaves currentPrompt at the prompt
\* that run produced, and while a video is published no step changes
\* currentPrompt without publishing a video.
C20_PromptAndVideoOfOneRun ==
    [][/\ \A c \in Cycles : Commits(c) => currentPrompt' = proc[c].prompt
       /\ InitializeCommits => currentPrompt' = proc[0].prompt
       /\ (currentVideo.id # Null /\ currentVideo' = currentVideo)
             => currentPrompt' = currentPrompt]_vars

====
